---------------------------- MODULE Spec2Model ----------------------------
(***************************************************************************)
(* try-again: retrying a fallible operation with a bounded number of       *)
(* retries and a delay between them.                                       *)
(*                                                                         *)
(* Two generations of the retry bound live in the repository:              *)
(*   entry = "retry"      retry / retry_async of src/src/lib.rs, bounded   *)
(*                        by a RetryStrategy (Retry { max_tries, delay }); *)
(*   entry = "delayed_by" retry(op).delayed_by(seq) and the *_with_options *)
(*                        entry points used by src/tests, bounded by the   *)
(*                        length of a Finite delay sequence                *)
(*                        (src/src/delay/*.rs, src/src/tracked_iterator.rs)*)
(*                        The loop of this generation is not among the     *)
(*                        sources; it follows section 4.5 of the spec.     *)
(*                                                                         *)
(* Durations are naturals 0..DurationMax (std::time::Duration scaled down);*)
(* Duration * u32 panics when the product is not representable.            *)
(* Option<T> is a sequence of length <= 1: None == <<>>, Some(x) == <<x>>. *)
(***************************************************************************)
EXTENDS Integers, Sequences, FiniteSets, TLC

\* ------------------------------------------------------------- bounds
\* The largest representable duration (Duration::MAX, scaled down).
DurationMax == 10
\* The largest max_tries of a Retry strategy that is explored.
MaxTries == 4
\* The largest count given to take(n) that is explored.
MaxTake == 5
\* The operation fails its first k invocations, k in 0..MaxFails, or always.
MaxFails == 3
\* Requests made of a delay sequence after it returned the end marker.
MaxEnds == 2
\* The longest Vec, and the longest run of a caller's own iterator.
MaxItems == 3
\* The most sessions run one after the other with one configuration.
MaxSessions == 2
\* The most constructors and adaptors in the chain that builds a sequence.
MaxChain == 4
\* The most times a predicate is asked about one value.
MaxJudgements == 3
\* The largest max_tries of a session that runs beside another.
MaxConcTries == 3
\* The largest exit code of a process.
MaxCode == 7

Durations == 0..DurationMax

\* ------------------------------------------------------------ Option
None_ == <<>>
Some(x) == <<x>>

\* --------------------------------------------------------- operation
\* An outcome carries the number of the invocation that produced it
\* (spec 8: "a counter-based failing operation returning the current
\* counter value wrapped as failure"); val = 0 is "no outcome yet".
NoOutcome == [ok |-> FALSE, val |-> 0]

Operations ==
    {[always_fails |-> TRUE, fails_first |-> 0]}
    \cup {[always_fails |-> FALSE, fails_first |-> k] : k \in 0..MaxFails}

\* The outcome of the i-th invocation of operation o.
Operation(o, i) ==
    IF o.always_fails \/ i <= o.fails_first
    THEN [ok |-> FALSE, val |-> i]
    ELSE [ok |-> TRUE, val |-> i]

\* A predicate with the sense inverted: retry what succeeded.
needs_retry_Inverted(outcome) == outcome.ok
\* NeedsRetry for Result: self.is_err().
needs_retry(outcome) == ~outcome.ok

\* ---------------------------------------------------------- Duration
\* Duration * u32: checked_mul(rhs).expect(..), None_ stands for the panic.
DurationMul(d, k) == IF d * k > DurationMax THEN None_ ELSE Some(d * k)

\* ------------------------------------------------ Retry (older bound)
NoDelay == None_
Static(d) ==
    Some([kind |-> "Static", delay |-> d, initial_delay |-> 0, max_delay |-> None_])
ExponentialBackoffDelay(d, c) ==
    Some([kind |-> "ExponentialBackoff", delay |-> 0, initial_delay |-> d,
          max_delay |-> c])

OptionalDurations == {None_} \cup {Some(c) : c \in Durations}

Delays ==
    {NoDelay} \cup {Static(d) : d \in Durations}
    \cup {ExponentialBackoffDelay(d, c) : d \in Durations, c \in OptionalDurations}

RetryStrategies == [max_tries : 0..MaxTries, delay : Delays]

\* Retry::initial_delay
Retry_initial_delay(self) ==
    IF self.delay # None_
    THEN IF self.delay[1].kind = "Static"
         THEN self.delay[1].delay
         ELSE self.delay[1].initial_delay
    ELSE 0

\* A next_delay that forgets max_delay.
Retry_next_delay_NoCap(self, tries_, last_delay) ==
    IF self.delay # None_
    THEN IF self.delay[1].kind = "Static"
         THEN Some(self.delay[1].delay)
         ELSE DurationMul(last_delay, 2)
    ELSE Some(last_delay)
\* Retry::next_delay; None_ stands for the panic of last_delay * 2.
Retry_next_delay(self, tries_, last_delay) ==
    IF self.delay # None_
    THEN IF self.delay[1].kind = "Static"
         THEN Some(self.delay[1].delay)
         ELSE LET doubled == DurationMul(last_delay, 2)
                  max_delay == self.delay[1].max_delay
              IN  IF doubled = None_
                  THEN None_
                  ELSE IF max_delay # None_ /\ doubled[1] > max_delay[1]
                       THEN max_delay
                       ELSE doubled
    ELSE Some(last_delay)

\* A strategy that counts max_tries as retries instead of tries.
Retry_is_exhausted_OffByOne(self, tries_) == tries_ > self.max_tries
\* Retry::is_exhausted
Retry_is_exhausted(self, tries_) == tries_ >= self.max_tries

\* ------------------------------------------- delay sequences (newer bound)
\* The state of a delay generator; the fields a kind does not have are 0.
NoGenerator ==
    [kind |-> "None", delay |-> 0, initial_delay |-> 0, last_delay |-> 0,
     max_delay |-> None_, first |-> FALSE, items |-> <<>>]

\* delay::None
NoneGenerator == NoGenerator

\* delay::Fixed::of
Fixed_of(d) == [NoGenerator EXCEPT !.kind = "Fixed", !.delay = d]

\* ExponentialBackoff::of_initial_delay(d).uncapped()
uncapped(d) ==
    [NoGenerator EXCEPT !.kind = "ExponentialBackoff", !.initial_delay = d,
                        !.last_delay = 0, !.max_delay = None_, !.first = TRUE]

\* ExponentialBackoff::of_initial_delay(d).capped_at(c)
capped_at(d, c) ==
    [NoGenerator EXCEPT !.kind = "ExponentialBackoff", !.initial_delay = d,
                        !.last_delay = 0, !.max_delay = Some(c), !.first = TRUE]

\* From<Vec<T>>: vec.into_iter(), the elements still to come in items.
Vec_into_iter(vec) == [NoGenerator EXCEPT !.kind = "Vec", !.items = vec]

\* Any other Iterator (IntoTrackedIterator is implemented for every I):
\* the results of its next() calls in order, a None_ among them being an
\* end marker after which it resumes; None_ for ever once they are used up.
Iterator_of(results) == [NoGenerator EXCEPT !.kind = "Iterator", !.items = results]

Generators ==
    {NoneGenerator} \cup {Fixed_of(d) : d \in Durations}
    \cup {uncapped(d) : d \in Durations}
    \cup {capped_at(d, c) : d \in Durations, c \in Durations}

\* The result of one call of next(): the iterator afterwards, the item
\* (None_ is the end marker) and whether the call panicked.
Yield(it, item) == [it |-> it, item |-> item, panic |-> FALSE]
Panic(it) == [it |-> it, item |-> None_, panic |-> TRUE]

\* Doubles the initial delay instead of the last delay produced.
ExponentialBackoffWithCap_next_FromInitial(self) ==
    IF self.first
    THEN Yield([self EXCEPT !.first = FALSE, !.last_delay = self.initial_delay],
               Some(self.initial_delay))
    ELSE LET doubled == DurationMul(self.initial_delay, 2)
         IN  IF doubled = None_
             THEN Panic(self)
             ELSE LET next == IF self.max_delay # None_
                                 /\ doubled[1] > self.max_delay[1]
                              THEN self.max_delay[1]
                              ELSE doubled[1]
                  IN  Yield([self EXCEPT !.last_delay = next], Some(next))

\* A doubling that forgets the cap.
ExponentialBackoffWithCap_next_NoCap(self) ==
    IF self.first
    THEN Yield([self EXCEPT !.first = FALSE, !.last_delay = self.initial_delay],
               Some(self.initial_delay))
    ELSE LET doubled == DurationMul(self.last_delay, 2)
         IN  IF doubled = None_
             THEN Panic(self)
             ELSE Yield([self EXCEPT !.last_delay = doubled[1]], Some(doubled[1]))

\* Iterator for ExponentialBackoffWithCap
ExponentialBackoffWithCap_next(self) ==
    IF self.first
    THEN Yield([self EXCEPT !.first = FALSE, !.last_delay = self.initial_delay],
               Some(self.initial_delay))
    ELSE LET doubled == DurationMul(self.last_delay, 2)
         IN  IF doubled = None_
             THEN Panic(self)
             ELSE LET next == IF self.max_delay # None_
                                 /\ doubled[1] > self.max_delay[1]
                              THEN self.max_delay[1]
                              ELSE doubled[1]
                  IN  Yield([self EXCEPT !.last_delay = next], Some(next))

\* A fixed delay that yields zero instead of its delay.
Fixed_next_Zero(self) == Yield(self, Some(0))

\* Iterator for Fixed
Fixed_next(self) == Yield(self, Some(self.delay))

\* Iterator for None
None_next(self) == Yield(self, Some(0))

\* std::vec::IntoIter::next
Vec_next(self) ==
    IF self.items = <<>>
    THEN Yield(self, None_)
    ELSE Yield([self EXCEPT !.items = Tail(self.items)], Some(Head(self.items)))

\* Iterator::next of a caller's iterator
Iterator_next(self) ==
    IF self.items = <<>>
    THEN Yield(self, None_)
    ELSE Yield([self EXCEPT !.items = Tail(self.items)], Head(self.items))

Generator_next(self) ==
    CASE self.kind = "ExponentialBackoff" -> ExponentialBackoffWithCap_next(self)
      [] self.kind = "Fixed" -> Fixed_next(self)
      [] self.kind = "Vec" -> Vec_next(self)
      [] self.kind = "Iterator" -> Iterator_next(self)
      [] OTHER -> None_next(self)

\* A bound that lets one element too many through.
take_OffByOne(generator, n) == [inner |-> generator, n |-> n + 1]
\* TrackedIterator::take: the generator inside std::iter::Take with n left.
take(generator, n) == [inner |-> generator, n |-> n]

\* A Take that re-arms itself when it has run out.
Take_next_Rearms(self) ==
    IF self.n = 0
    THEN Yield([self EXCEPT !.n = 1], None_)
    ELSE LET r == Generator_next(self.inner)
         IN  [it |-> [inner |-> r.it, n |-> self.n - 1],
              item |-> r.item, panic |-> r.panic]

\* std::iter::Take::next
Take_next(self) ==
    IF self.n = 0
    THEN Yield(self, None_)
    ELSE LET r == Generator_next(self.inner)
         IN  [it |-> [inner |-> r.it, n |-> self.n - 1],
              item |-> r.item, panic |-> r.panic]

\* Iterator for TrackedIterator: self.inner.next()
TrackedIterator_next(self) == Take_next(self)

\* DelayStrategy for FiniteIterator: self.next()
FiniteIterator_next_delay(self) == TrackedIterator_next(self)

\* -------------------------------------------------------------- state
VARIABLES
    entry,           \* "retry" (RetryStrategy bound) or "delayed_by" (sequence bound)
    mode,            \* "sync" (retry) or "async" (retry_async)
    op,              \* the operation retried
    retry_strategy,  \* the Retry value given to retry / retry_async
    delay_strategy,  \* the Finite delay sequence given to delayed_by
    count,           \* the n of take(n) that built delay_strategy
    wrapped,         \* the sequence take(n) was applied to, as configured
    pc,              \* "Invoking", "Evaluating", "Delaying", "Done", "Panicked";
                     \* "Idle" when a delay sequence is used on its own
    tries,           \* the attempt counter
    next_delay,      \* the delay the executor is called with next
    out,             \* the outcome of the latest invocation
    result,          \* the outcome the session returned
    calls,           \* invocations of the operation (the caller's counter)
    delays,          \* the durations the delay executor was called with
    yielded,         \* the elements delay_strategy has produced
    ends,            \* the end markers delay_strategy has returned
    trace,           \* the session's events in order
    log,             \* the diagnostic events
    history,         \* what the earlier sessions of this configuration returned
    chain,           \* the constructor and adaptors a tracked sequence was built by
    tag,             \* the finiteness tag (type parameter F) of that sequence
    subject,         \* the value a NeedsRetry predicate is asked about
    verdicts,        \* the answers needs_retry gave for subject, in order
    cancelled,       \* the task that runs the asynchronous session was cancelled
    threads,         \* the locals of the sessions that run concurrently
    shared           \* the caller's state those sessions' operation shares

vars ==
    <<entry, mode, op, retry_strategy, delay_strategy, count, wrapped, pc, tries,
      next_delay, out, result, calls, delays, yielded, ends, trace, log,
      history, chain, tag, subject, verdicts, cancelled, threads, shared>>

\* The locals of one session.
session ==
    <<delay_strategy, pc, tries, next_delay, out, result, calls, delays,
      yielded, ends, trace, log>>

\* What a session does not touch.
outside == <<cancelled, threads, shared>>

aside == <<history, chain, tag, subject, verdicts, outside>>

NoShared == [counter |-> 0, op |-> [always_fails |-> TRUE, fails_first |-> 0]]

\* No cancellation, no concurrent sessions.
Outside ==
    /\ cancelled = FALSE
    /\ threads = <<>>
    /\ shared = NoShared

NoSubject == [type |-> "None"]

\* No earlier session, no sequence under construction, nothing to judge.
Aside ==
    /\ history = <<>>
    /\ chain = <<>>
    /\ tag = "Unknown"
    /\ subject = NoSubject
    /\ verdicts = <<>>
    /\ Outside

config == <<entry, mode, op, retry_strategy, count, wrapped>>

NoRetryStrategy == [max_tries |-> 0, delay |-> NoDelay]

\* The locals of a session at its start (lib.rs: tries = 1).
SessionStart ==
    /\ pc = "Invoking"
    /\ tries = 1
    /\ out = NoOutcome
    /\ result = NoOutcome
    /\ calls = 0
    /\ delays = <<>>
    /\ yielded = <<>>
    /\ ends = 0
    /\ trace = <<>>
    /\ log = <<>>

\* retry(retry_strategy, delay_strategy, operation) and retry_async(..)
RetryInit ==
    /\ entry = "retry"
    /\ mode \in {"sync", "async"}
    /\ op \in Operations
    /\ retry_strategy \in RetryStrategies
    /\ delay_strategy = take(NoneGenerator, 0)
    /\ count = 0
    /\ wrapped = NoneGenerator
    /\ next_delay = Retry_initial_delay(retry_strategy)
    /\ SessionStart
    /\ Aside

\* retry(operation).delayed_by(generator.take(n)) and its async twin
DelayedByInit ==
    /\ entry = "delayed_by"
    /\ mode \in {"sync", "async"}
    /\ op \in Operations
    /\ retry_strategy = NoRetryStrategy
    /\ count \in 0..MaxTake
    /\ wrapped \in Generators
    /\ delay_strategy = take(wrapped, count)
    /\ next_delay = 0
    /\ SessionStart
    /\ Aside

Init == RetryInit \/ DelayedByInit

\* A waiting event that reports the first try every time.
Waiting_FirstTry(t, d) ==
    [event |-> "waiting", tries |-> 1, delay |-> d, last_output |-> NoOutcome]
\* debug!(tries, delay = ?next_delay, "Operation was not successful. Waiting...")
Waiting(t, d) ==
    [event |-> "waiting", tries |-> t, delay |-> d, last_output |-> NoOutcome]
Aborting(t, o) ==
    [event |-> "aborting", tries |-> t, delay |-> 0, last_output |-> o]

\* ------------------------------------------------- retry (lib.rs, sync)
\* let out = operation();
RetryInvoke ==
    /\ entry = "retry" /\ mode = "sync" /\ pc = "Invoking"
    /\ calls' = calls + 1
    /\ out' = Operation(op, calls + 1)
    /\ trace' = Append(trace, <<"invoke", calls + 1>>)
    /\ pc' = "Evaluating"
    /\ UNCHANGED <<config, aside, delay_strategy, tries, next_delay, result, delays,
                   yielded, ends, log>>

\* Calls the operation again at once when a retry is needed.
RetryEvaluate_NoWait ==
    /\ entry = "retry" /\ mode = "sync" /\ pc = "Evaluating"
    /\ trace' = Append(trace, <<"evaluate", calls>>)
    /\ IF ~needs_retry(out)
       THEN /\ pc' = "Done" /\ result' = out /\ log' = log
       ELSE IF Retry_is_exhausted(retry_strategy, tries)
            THEN /\ pc' = "Done" /\ result' = out
                 /\ log' = Append(log, Aborting(tries, out))
            ELSE /\ pc' = "Invoking" /\ result' = result
                 /\ log' = Append(log, Waiting(tries, next_delay))
    /\ UNCHANGED <<config, aside, delay_strategy, tries, next_delay, out, calls, delays,
                   yielded, ends>>
\* match out.needs_retry() { false => return out, true => if is_exhausted .. }
RetryEvaluate ==
    /\ entry = "retry" /\ mode = "sync" /\ pc = "Evaluating"
    /\ trace' = Append(trace, <<"evaluate", calls>>)
    /\ IF ~needs_retry(out)
       THEN /\ pc' = "Done" /\ result' = out /\ log' = log
       ELSE IF Retry_is_exhausted(retry_strategy, tries)
            THEN /\ pc' = "Done" /\ result' = out
                 /\ log' = Append(log, Aborting(tries, out))
            ELSE /\ pc' = "Delaying" /\ result' = result
                 /\ log' = Append(log, Waiting(tries, next_delay))
    /\ UNCHANGED <<config, aside, delay_strategy, tries, next_delay, out, calls, delays,
                   yielded, ends>>

\* A loop that forgets to count the try.
RetryDelay_NoCount ==
    /\ entry = "retry" /\ mode = "sync" /\ pc = "Delaying"
    /\ delays' = Append(delays, next_delay)
    /\ trace' = Append(trace, <<"delay", Len(delays) + 1>>)
    /\ LET next == Retry_next_delay(retry_strategy, tries, next_delay)
       IN  IF next = None_
           THEN /\ pc' = "Panicked" /\ UNCHANGED <<next_delay, tries>>
           ELSE /\ next_delay' = next[1]
                /\ tries' = tries
                /\ pc' = "Invoking"
    /\ UNCHANGED <<config, aside, delay_strategy, out, result, calls, yielded, ends, log>>

\* A loop that advances next_delay before it delays.
RetryDelay_PassesNext ==
    /\ entry = "retry" /\ mode = "sync" /\ pc = "Delaying"
    /\ trace' = Append(trace, <<"delay", Len(delays) + 1>>)
    /\ LET next == Retry_next_delay(retry_strategy, tries, next_delay)
       IN  IF next = None_
           THEN /\ pc' = "Panicked" /\ UNCHANGED <<next_delay, tries, delays>>
           ELSE /\ next_delay' = next[1]
                /\ delays' = Append(delays, next[1])
                /\ tries' = tries + 1
                /\ pc' = "Invoking"
    /\ UNCHANGED <<config, aside, delay_strategy, out, result, calls, yielded, ends, log>>

\* delay_strategy.delay(next_delay.clone());
\* next_delay = retry_strategy.next_delay(tries, next_delay); tries += 1;
RetryDelay ==
    /\ entry = "retry" /\ mode = "sync" /\ pc = "Delaying"
    /\ delays' = Append(delays, next_delay)
    /\ trace' = Append(trace, <<"delay", Len(delays) + 1>>)
    /\ LET next == Retry_next_delay(retry_strategy, tries, next_delay)
       IN  IF next = None_
           THEN /\ pc' = "Panicked" /\ UNCHANGED <<next_delay, tries>>
           ELSE /\ next_delay' = next[1]
                /\ tries' = tries + 1
                /\ pc' = "Invoking"
    /\ UNCHANGED <<config, aside, delay_strategy, out, result, calls, yielded, ends, log>>

\* ------------------------------------------- retry_async (lib.rs, async)
\* let out = operation().await;
RetryAsyncInvoke ==
    /\ entry = "retry" /\ mode = "async" /\ pc = "Invoking"
    /\ calls' = calls + 1
    /\ out' = Operation(op, calls + 1)
    /\ trace' = Append(trace, <<"invoke", calls + 1>>)
    /\ pc' = "Evaluating"
    /\ UNCHANGED <<config, aside, delay_strategy, tries, next_delay, result, delays,
                   yielded, ends, log>>

RetryAsyncEvaluate ==
    /\ entry = "retry" /\ mode = "async" /\ pc = "Evaluating"
    /\ trace' = Append(trace, <<"evaluate", calls>>)
    /\ IF ~needs_retry(out)
       THEN /\ pc' = "Done" /\ result' = out /\ log' = log
       ELSE IF Retry_is_exhausted(retry_strategy, tries)
            THEN /\ pc' = "Done" /\ result' = out
                 /\ log' = Append(log, Aborting(tries, out))
            ELSE /\ pc' = "Delaying" /\ result' = result
                 /\ log' = Append(log, Waiting(tries, next_delay))
    /\ UNCHANGED <<config, aside, delay_strategy, tries, next_delay, out, calls, delays,
                   yielded, ends>>

\* delay_strategy.delay(next_delay.clone()).await; next_delay = ..; tries += 1;
RetryAsyncDelay ==
    /\ entry = "retry" /\ mode = "async" /\ pc = "Delaying"
    /\ delays' = Append(delays, next_delay)
    /\ trace' = Append(trace, <<"delay", Len(delays) + 1>>)
    /\ LET next == Retry_next_delay(retry_strategy, tries, next_delay)
       IN  IF next = None_
           THEN /\ pc' = "Panicked" /\ UNCHANGED <<next_delay, tries>>
           ELSE /\ next_delay' = next[1]
                /\ tries' = tries + 1
                /\ pc' = "Invoking"
    /\ UNCHANGED <<config, aside, delay_strategy, out, result, calls, yielded, ends, log>>

\* ------------------------------------ delayed_by (spec 4.5, both modes)
\* Invoking: call the operation, move to Evaluating.
DelayedByInvoke ==
    /\ entry = "delayed_by" /\ pc = "Invoking"
    /\ calls' = calls + 1
    /\ out' = Operation(op, calls + 1)
    /\ trace' = Append(trace, <<"invoke", calls + 1>>)
    /\ pc' = "Evaluating"
    /\ UNCHANGED <<config, aside, delay_strategy, tries, next_delay, result, delays,
                   yielded, ends, log>>

\* Evaluating: done when no retry is needed; else request the next delay:
\* a value moves to Delaying, the end marker to Done with the last outcome.
DelayedByEvaluate ==
    /\ entry = "delayed_by" /\ pc = "Evaluating"
    /\ trace' = Append(trace, <<"evaluate", calls>>)
    /\ IF ~needs_retry(out)
       THEN /\ pc' = "Done" /\ result' = out
            /\ UNCHANGED <<delay_strategy, next_delay, yielded, ends, log>>
       ELSE LET r == FiniteIterator_next_delay(delay_strategy)
            IN  IF r.panic
                THEN /\ pc' = "Panicked"
                     /\ UNCHANGED <<delay_strategy, next_delay, result, yielded,
                                    ends, log>>
                ELSE IF r.item = None_
                     THEN /\ pc' = "Done" /\ result' = out
                          /\ delay_strategy' = r.it
                          /\ ends' = ends + 1
                          /\ log' = Append(log, Aborting(tries, out))
                          /\ UNCHANGED <<next_delay, yielded>>
                     ELSE /\ pc' = "Delaying"
                          /\ delay_strategy' = r.it
                          /\ next_delay' = r.item[1]
                          /\ yielded' = Append(yielded, r.item[1])
                          /\ log' = Append(log, Waiting(tries, r.item[1]))
                          /\ UNCHANGED <<result, ends>>
    /\ UNCHANGED <<config, aside, tries, out, calls, delays>>

\* Delaying: the executor is called with the value and returns; the
\* attempt counter is incremented; back to Invoking.
DelayedByDelay ==
    /\ entry = "delayed_by" /\ pc = "Delaying"
    /\ delays' = Append(delays, next_delay)
    /\ trace' = Append(trace, <<"delay", Len(delays) + 1>>)
    /\ tries' = tries + 1
    /\ pc' = "Invoking"
    /\ UNCHANGED <<config, aside, delay_strategy, next_delay, out, result, calls,
                   yielded, ends, log>>

Next ==
    \/ RetryInvoke
    \/ RetryEvaluate
    \/ RetryDelay
    \/ RetryAsyncInvoke
    \/ RetryAsyncEvaluate
    \/ RetryAsyncDelay
    \/ DelayedByInvoke
    \/ DelayedByEvaluate
    \/ DelayedByDelay

Spec == Init /\ [][Next]_vars

\* --------------------------------------- a delay sequence on its own
\* generator.take(n), iterated by hand as the tests of src/src/delay do;
\* also a Vec and a caller's own iterator under take(n).
SeqsOver(S) == UNION {[1..l -> S] : l \in 0..MaxItems}

VecIterators == {Vec_into_iter(v) : v \in SeqsOver({1, 2})}

OtherIterators == {Iterator_of(r) : r \in SeqsOver({None_, Some(1), Some(2)})}

SeqInit ==
    /\ entry = "delayed_by"
    /\ mode = "sync"
    /\ op \in {[always_fails |-> TRUE, fails_first |-> 0]}
    /\ retry_strategy = NoRetryStrategy
    /\ count \in 0..MaxTake
    /\ wrapped \in Generators \cup VecIterators \cup OtherIterators
    /\ delay_strategy = take(wrapped, count)
    /\ pc = "Idle"
    /\ tries = 1
    /\ next_delay = 0
    /\ out = NoOutcome
    /\ result = NoOutcome
    /\ calls = 0
    /\ delays = <<>>
    /\ yielded = <<>>
    /\ ends = 0
    /\ trace = <<>>
    /\ log = <<>>
    /\ Aside

\* delay.next()
Request ==
    /\ pc = "Idle"
    /\ ends < MaxEnds
    /\ LET r == FiniteIterator_next_delay(delay_strategy)
       IN  IF r.panic
           THEN /\ pc' = "Panicked"
                /\ UNCHANGED <<delay_strategy, yielded, ends>>
           ELSE /\ pc' = pc
                /\ delay_strategy' = r.it
                /\ IF r.item = None_
                   THEN /\ ends' = ends + 1 /\ yielded' = yielded
                   ELSE /\ yielded' = Append(yielded, r.item[1]) /\ ends' = ends
    /\ UNCHANGED <<config, aside, tries, next_delay, out, result, calls, delays, trace, log>>

SeqNext == Request

SeqSpec == SeqInit /\ [][SeqNext]_vars

\* ------------------------------------------- sessions one after another
\* The caller runs the same call again: retry / retry_async / delayed_by
\* with the same arguments (the generators are Copy, take(n) builds a new
\* sequence from them), its counter reset. The locals of the function are
\* initialised anew on entry.
Restart_KeepsPosition ==
    /\ pc = "Done"
    /\ Len(history) < MaxSessions
    /\ history' = Append(history, [result |-> result, calls |-> calls,
                                   delays |-> delays])
    /\ pc' = "Invoking"
    /\ out' = NoOutcome
    /\ result' = NoOutcome
    /\ calls' = 0
    /\ delays' = <<>>
    /\ yielded' = <<>>
    /\ ends' = 0
    /\ trace' = <<>>
    /\ log' = <<>>
    /\ UNCHANGED <<config, tries, next_delay, delay_strategy, chain, tag,
                   subject, verdicts, outside>>

Restart ==
    /\ pc = "Done"
    /\ Len(history) < MaxSessions
    /\ history' = Append(history, [result |-> result, calls |-> calls,
                                   delays |-> delays])
    /\ pc' = "Invoking"
    /\ tries' = 1
    /\ next_delay' = IF entry = "retry"
                     THEN Retry_initial_delay(retry_strategy)
                     ELSE 0
    /\ delay_strategy' = take(wrapped, count)
    /\ out' = NoOutcome
    /\ result' = NoOutcome
    /\ calls' = 0
    /\ delays' = <<>>
    /\ yielded' = <<>>
    /\ ends' = 0
    /\ trace' = <<>>
    /\ log' = <<>>
    /\ UNCHANGED <<config, chain, tag, subject, verdicts, outside>>

RepeatNext == Next \/ Restart

RepeatSpec == Init /\ [][RepeatNext]_vars

\* ------------------------------------ the two variants, one after the other
\* The caller runs the other variant (retry after retry_async, retry_async
\* after retry) with the same strategy, the same delay sequence and an
\* operation that gives the same outcomes; how the first run ended is kept.
RunOtherVariant ==
    /\ pc \in {"Done", "Panicked"}
    /\ history = <<>>
    /\ history' = <<[result |-> result, calls |-> calls, delays |-> delays,
                     ended |-> pc]>>
    /\ mode' = IF mode = "sync" THEN "async" ELSE "sync"
    /\ pc' = "Invoking"
    /\ tries' = 1
    /\ next_delay' = IF entry = "retry"
                     THEN Retry_initial_delay(retry_strategy)
                     ELSE 0
    /\ delay_strategy' = take(wrapped, count)
    /\ out' = NoOutcome
    /\ result' = NoOutcome
    /\ calls' = 0
    /\ delays' = <<>>
    /\ yielded' = <<>>
    /\ ends' = 0
    /\ trace' = <<>>
    /\ log' = <<>>
    /\ UNCHANGED <<entry, op, retry_strategy, count, wrapped, chain, tag,
                   subject, verdicts, outside>>

BothNext == Next \/ RunOtherVariant

BothSpec == Init /\ [][BothNext]_vars

\* ------------------------------- retry_async with its two await points
\* retry_async in finer steps: the session is suspended after it has called
\* operation() and awaits the future, and after it has called
\* delay_strategy.delay(..) and awaits that future. The task that polls it
\* can be cancelled at either point: the future of retry_async is dropped.
CancelInit == RetryInit /\ mode = "async"

\* operation() is called; its future is awaited.
CallOperation ==
    /\ entry = "retry" /\ mode = "async" /\ pc = "Invoking"
    /\ calls' = calls + 1
    /\ trace' = Append(trace, <<"invoke", calls + 1>>)
    /\ pc' = "AwaitingOperation"
    /\ UNCHANGED <<config, aside, delay_strategy, tries, next_delay, out, result,
                   delays, yielded, ends, log>>

\* let out = operation().await: the future is ready.
OperationReady ==
    /\ entry = "retry" /\ mode = "async" /\ pc = "AwaitingOperation"
    /\ out' = Operation(op, calls)
    /\ pc' = "Evaluating"
    /\ UNCHANGED <<config, aside, delay_strategy, tries, next_delay, result, calls,
                   delays, yielded, ends, trace, log>>

\* delay_strategy.delay(next_delay.clone()) is called; its future is awaited.
CallDelay ==
    /\ entry = "retry" /\ mode = "async" /\ pc = "Delaying"
    /\ delays' = Append(delays, next_delay)
    /\ trace' = Append(trace, <<"delay", Len(delays) + 1>>)
    /\ pc' = "AwaitingDelay"
    /\ UNCHANGED <<config, aside, delay_strategy, tries, next_delay, out, result,
                   calls, yielded, ends, log>>

\* The delay is over: next_delay = retry_strategy.next_delay(..); tries += 1.
DelayReady ==
    /\ entry = "retry" /\ mode = "async" /\ pc = "AwaitingDelay"
    /\ LET next == Retry_next_delay(retry_strategy, tries, next_delay)
       IN  IF next = None_
           THEN /\ pc' = "Panicked" /\ UNCHANGED <<next_delay, tries>>
           ELSE /\ next_delay' = next[1]
                /\ tries' = tries + 1
                /\ pc' = "Invoking"
    /\ UNCHANGED <<config, aside, delay_strategy, out, result, calls, delays,
                   yielded, ends, trace, log>>

\* A cancellation that leaves the session running (a detached task).
Cancel_Detached ==
    /\ pc \in {"AwaitingOperation", "AwaitingDelay"}
    /\ ~cancelled
    /\ cancelled' = TRUE
    /\ UNCHANGED <<config, session, history, chain, tag, subject, verdicts,
                   threads, shared>>

\* The enclosing task is cancelled while the session is suspended: the
\* future is dropped and is never polled again.
Cancel ==
    /\ pc \in {"AwaitingOperation", "AwaitingDelay"}
    /\ ~cancelled
    /\ cancelled' = TRUE
    /\ pc' = "Cancelled"
    /\ UNCHANGED <<config, delay_strategy, tries, next_delay, out, result, calls,
                   delays, yielded, ends, trace, log, history, chain, tag,
                   subject, verdicts, threads, shared>>

CancelNext ==
    \/ CallOperation
    \/ OperationReady
    \/ RetryAsyncEvaluate
    \/ CallDelay
    \/ DelayReady
    \/ Cancel

CancelSpec == CancelInit /\ [][CancelNext]_vars

\* No session is running.
NoSession ==
    /\ entry = "none"
    /\ mode = "sync"
    /\ op = [always_fails |-> TRUE, fails_first |-> 0]
    /\ retry_strategy = NoRetryStrategy
    /\ count = 0
    /\ wrapped = NoneGenerator
    /\ delay_strategy = take(NoneGenerator, 0)
    /\ pc = "Idle"
    /\ tries = 1
    /\ next_delay = 0
    /\ out = NoOutcome
    /\ result = NoOutcome
    /\ calls = 0
    /\ delays = <<>>
    /\ yielded = <<>>
    /\ ends = 0
    /\ trace = <<>>
    /\ log = <<>>

\* ------------------------------------------------- concurrent sessions
\* Two calls of retry run on two threads; both are given a closure over the
\* same caller state (an atomic counter, as in the tests: fetch_add, then
\* an outcome that depends on the value). Each call has its own locals.
Threads == {"A", "B"}

ConcDelays ==
    {NoDelay, Static(1), ExponentialBackoffDelay(1, None_),
     ExponentialBackoffDelay(2, Some(3))}

ConcStrategies == [max_tries : 0..MaxConcTries, delay : ConcDelays]

\* The locals of retry on entry: tries = 1, next_delay = initial_delay().
ThreadStart(strategy) ==
    [retry_strategy |-> strategy, pc |-> "Invoking", tries |-> 1,
     next_delay |-> Retry_initial_delay(strategy), out |-> NoOutcome,
     result |-> NoOutcome, calls |-> 0, delays |-> <<>>]

ConcInit ==
    /\ NoSession
    /\ history = <<>>
    /\ chain = <<>>
    /\ tag = "Unknown"
    /\ subject = NoSubject
    /\ verdicts = <<>>
    /\ cancelled = FALSE
    /\ threads \in [Threads -> {ThreadStart(strategy) : strategy \in ConcStrategies}]
    /\ shared \in [counter : {0}, op : Operations]

\* let out = operation(); the closure adds 1 to the shared counter.
ThreadInvoke(t) ==
    /\ threads[t].pc = "Invoking"
    /\ shared' = [shared EXCEPT !.counter = shared.counter + 1]
    /\ threads' = [threads EXCEPT ![t].calls = threads[t].calls + 1,
                                  ![t].out = Operation(shared.op, shared.counter + 1),
                                  ![t].pc = "Evaluating"]
    /\ UNCHANGED <<config, session, history, chain, tag, subject, verdicts, cancelled>>

\* match out.needs_retry() { false => return out, true => if is_exhausted .. }
ThreadEvaluate(t) ==
    /\ threads[t].pc = "Evaluating"
    /\ LET self == threads[t]
       IN  IF ~needs_retry(self.out)
              \/ Retry_is_exhausted(self.retry_strategy, self.tries)
           THEN threads' = [threads EXCEPT ![t].pc = "Done",
                                           ![t].result = self.out]
           ELSE threads' = [threads EXCEPT ![t].pc = "Delaying"]
    /\ UNCHANGED <<config, session, history, chain, tag, subject, verdicts,
                   cancelled, shared>>

\* An attempt counter that all sessions share.
ThreadDelay_SharedTries(t) ==
    /\ threads[t].pc = "Delaying"
    /\ LET self == threads[t]
           next == Retry_next_delay(self.retry_strategy, self.tries, self.next_delay)
       IN  IF next = None_
           THEN threads' = [threads EXCEPT
                               ![t].delays = Append(self.delays, self.next_delay),
                               ![t].pc = "Panicked"]
           ELSE threads' =
                   [u \in Threads |->
                       IF u = t
                       THEN [self EXCEPT !.delays = Append(self.delays, self.next_delay),
                                         !.next_delay = next[1],
                                         !.tries = self.tries + 1,
                                         !.pc = "Invoking"]
                       ELSE [threads[u] EXCEPT !.tries = threads[u].tries + 1]]
    /\ UNCHANGED <<config, session, history, chain, tag, subject, verdicts,
                   cancelled, shared>>

\* delay_strategy.delay(next_delay.clone());
\* next_delay = retry_strategy.next_delay(tries, next_delay); tries += 1;
ThreadDelay(t) ==
    /\ threads[t].pc = "Delaying"
    /\ LET self == threads[t]
           next == Retry_next_delay(self.retry_strategy, self.tries, self.next_delay)
       IN  IF next = None_
           THEN threads' = [threads EXCEPT
                               ![t].delays = Append(self.delays, self.next_delay),
                               ![t].pc = "Panicked"]
           ELSE threads' = [threads EXCEPT
                               ![t].delays = Append(self.delays, self.next_delay),
                               ![t].next_delay = next[1],
                               ![t].tries = self.tries + 1,
                               ![t].pc = "Invoking"]
    /\ UNCHANGED <<config, session, history, chain, tag, subject, verdicts,
                   cancelled, shared>>

ConcNext ==
    \E t \in Threads :
        \/ ThreadInvoke(t)
        \/ ThreadEvaluate(t)
        \/ ThreadDelay(t)

ConcSpec == ConcInit /\ [][ConcNext]_vars

\* ------------------------------------------------- finiteness tags
\* The type parameter F of TrackedIterator<I, F> that each constructor and
\* adaptor gives its result.
Tags == {"Finite", "Infinite", "Unknown"}

\* IntoTrackedIterator::into_tracked -> TrackedIterator<Self, Unknown>
into_tracked_F == "Unknown"
\* TrackedIterator<I, F>::take -> TrackedIterator<Take<I>, Finite>
take_F(F) == "Finite"
\* A map that declares its result Finite.
map_F_Finite(F) == "Finite"
\* TrackedIterator<I, F>::map -> TrackedIterator<Map<I, Func>, F>
map_F(F) == F
\* TrackedIterator<I, F>::filter -> TrackedIterator<Filter<I, Pred>, F>
filter_F(F) == F
\* From<Vec<T>> for TrackedIterator<vec::IntoIter<T>, Finite>
from_Vec_F == "Finite"
\* From<&[T]> for TrackedIterator<slice::Iter<T>, Finite>
from_slice_F == "Finite"

\* impl DelayStrategy<Delay> for FiniteIterator<I>: the only implementation.
implements_DelayStrategy(F) == F = "Finite"

Constructors == {"into_tracked", "from_vec", "from_slice"}

Constructor_F(c) ==
    CASE c = "into_tracked" -> into_tracked_F
      [] c = "from_vec" -> from_Vec_F
      [] c = "from_slice" -> from_slice_F

Last(s) == s[Len(s)]

TagInit ==
    /\ NoSession
    /\ Outside
    /\ history = <<>>
    /\ subject = NoSubject
    /\ verdicts = <<>>
    /\ \E c \in Constructors :
          /\ chain = <<c>>
          /\ tag = Constructor_F(c)

Building == Len(chain) < MaxChain /\ Last(chain) # "delayed_by"

ApplyTake ==
    /\ Building
    /\ chain' = Append(chain, "take")
    /\ tag' = take_F(tag)
    /\ UNCHANGED <<config, session, history, subject, verdicts, outside>>

ApplyMap ==
    /\ Building
    /\ chain' = Append(chain, "map")
    /\ tag' = map_F(tag)
    /\ UNCHANGED <<config, session, history, subject, verdicts, outside>>

ApplyFilter ==
    /\ Building
    /\ chain' = Append(chain, "filter")
    /\ tag' = filter_F(tag)
    /\ UNCHANGED <<config, session, history, subject, verdicts, outside>>

\* retry(op).delayed_by(sequence): compiles only if the sequence's type
\* implements DelayStrategy.
BindDelayStrategy ==
    /\ Last(chain) # "delayed_by"
    /\ implements_DelayStrategy(tag)
    /\ chain' = Append(chain, "delayed_by")
    /\ UNCHANGED <<config, session, history, tag, subject, verdicts, outside>>

TagNext == ApplyTake \/ ApplyMap \/ ApplyFilter \/ BindDelayStrategy

TagSpec == TagInit /\ [][TagNext]_vars

\* ------------------------------------------------- built-in predicates
Results == [type : {"Result"}, ok : BOOLEAN, val : 0..MaxCode]
Options == [type : {"Option"}, value : {None_} \cup {Some(v) : v \in 0..MaxCode}]
\* An ExitStatus: the exit code, or None_ when a signal ended the process.
ExitStatuses ==
    [type : {"ExitStatus"}, code : {None_} \cup {Some(c) : c \in 0..MaxCode}]

Subjects == Results \cup Options \cup ExitStatuses

\* std::process::ExitStatus::success: exited with code 0.
success(status) == status.code = Some(0)

\* NeedsRetry for Option: self.is_none().
needs_retry_Option(option) == option.value = None_

\* NeedsRetry for ExitStatus: !self.success().
needs_retry_ExitStatus(status) == ~success(status)

NeedsRetry_needs_retry(self) ==
    CASE self.type = "Result" -> needs_retry(self)
      [] self.type = "Option" -> needs_retry_Option(self)
      [] self.type = "ExitStatus" -> needs_retry_ExitStatus(self)

PredInit ==
    /\ NoSession
    /\ Outside
    /\ history = <<>>
    /\ chain = <<>>
    /\ tag = "Unknown"
    /\ subject \in Subjects
    /\ verdicts = <<>>

\* subject.needs_retry(): takes &self, returns a bool.
Judge ==
    /\ Len(verdicts) < MaxJudgements
    /\ verdicts' = Append(verdicts, NeedsRetry_needs_retry(subject))
    /\ UNCHANGED <<config, session, history, chain, tag, subject, outside>>

PredNext == Judge

PredSpec == PredInit /\ [][PredNext]_vars

\* ------------------------------------------------------------ claims
Min(a, b) == IF a <= b THEN a ELSE b
Max(a, b) == IF a >= b THEN a ELSE b

RECURSIVE Pow2(_)
Pow2(i) == IF i = 0 THEN 1 ELSE 2 * Pow2(i - 1)

AlwaysFails == op.always_fails
Returned == pc = "Done"

\* C1: with an always-failing operation and a delay sequence built by
\* take(n), a session (sync or async) never invokes the operation more than
\* n + 1 times nor the delay executor more than n times, and when it
\* terminates it has invoked the operation exactly n + 1 times and the
\* executor exactly n times.
C1_TakeBoundsInvocations ==
    (entry = "delayed_by" /\ AlwaysFails) =>
        /\ calls <= count + 1
        /\ Len(delays) <= count
        /\ Returned => (calls = count + 1 /\ Len(delays) = count)

C1_Witness ==
    /\ entry = "delayed_by" /\ mode = "async" /\ AlwaysFails
    /\ delay_strategy.inner.kind = "Fixed"
    /\ count = 3 /\ Returned /\ calls = 4 /\ Len(delays) = 3

\* C2: with an always-failing operation and a Retry strategy of
\* max_tries = m >= 1, of any delay kind, retry and retry_async never invoke
\* the operation more than m times, and when they return they have invoked
\* it exactly m times, delayed m - 1 times, and return the failing outcome.
C2_MaxTriesBoundsInvocations ==
    (entry = "retry" /\ AlwaysFails /\ retry_strategy.max_tries >= 1) =>
        /\ calls <= retry_strategy.max_tries
        /\ Len(delays) <= retry_strategy.max_tries - 1
        /\ Returned =>
            /\ calls = retry_strategy.max_tries
            /\ Len(delays) = retry_strategy.max_tries - 1
            /\ ~result.ok
            /\ result = Operation(op, calls)

C2_Witness ==
    /\ entry = "retry" /\ AlwaysFails /\ Returned
    /\ retry_strategy.max_tries = 3
    /\ retry_strategy.delay # None_ /\ retry_strategy.delay[1].kind = "Static"
    /\ calls = 3 /\ Len(delays) = 2 /\ ~result.ok

\* C3: when the first outcome needs no retry the operation is invoked
\* exactly once, whatever the length of the delay sequence or max_tries.
C3_SuccessNeverRetries ==
    Operation(op, 1).ok =>
        /\ calls <= 1
        /\ delays = <<>>
        /\ Returned => (calls = 1 /\ result = Operation(op, 1))

C3_Witness ==
    /\ Operation(op, 1).ok /\ Returned /\ calls = 1 /\ result.ok
    /\ entry = "retry" /\ retry_strategy.max_tries = 3

\* C4: a session that ends while its outcome still needs retry returns the
\* outcome of the last invocation: the value of the (n + 1)-th invocation
\* under take(n) (the 3rd under take(2)), of the max_tries-th under Retry.
C4_ExhaustionReturnsLastOutcome ==
    (Returned /\ ~result.ok) =>
        /\ result = out
        /\ result = Operation(op, calls)
        /\ entry = "delayed_by" => result.val = count + 1
        /\ entry = "retry" => result.val = Max(1, retry_strategy.max_tries)

C4_Witness ==
    /\ entry = "delayed_by" /\ count = 2 /\ Returned
    /\ result = [ok |-> FALSE, val |-> 3] /\ calls = 3

\* C5: in every terminated session the invocations are 1 + the delay
\* elements consumed; an operation failing its first k invocations, under
\* take(n), gets min(k, n) + 1 invocations and min(k, n) suspensions, and
\* the result needs no retry iff k <= n.
C5_InvocationsAreOnePlusDelays ==
    Returned =>
        /\ calls = 1 + Len(delays)
        /\ entry = "delayed_by" => calls = 1 + Len(yielded)
        /\ (entry = "delayed_by" /\ ~AlwaysFails) =>
            /\ calls = Min(op.fails_first, count) + 1
            /\ Len(delays) = Min(op.fails_first, count)
            /\ result.ok <=> op.fails_first <= count

C5_Witness ==
    /\ entry = "delayed_by" /\ ~AlwaysFails /\ Returned
    /\ op.fails_first = 2 /\ count = 3
    /\ calls = 3 /\ Len(delays) = 2 /\ result.ok

\* C6: an outcome that needs no retry ends the session at once: the step
\* that evaluates it moves to Done and returns that outcome unchanged, with
\* no invocation and no delay, and nothing happens after Done.
C6_SuccessEndsSession ==
    [][/\ (pc = "Evaluating" /\ out.ok) =>
            (pc' = "Done" /\ result' = out /\ calls' = calls /\ delays' = delays)
       /\ pc = "Done" =>
            (pc' = "Done" /\ result' = result /\ calls' = calls
             /\ delays' = delays)]_vars

C6_Witness ==
    /\ Returned /\ result.ok /\ result.val = 3 /\ calls = 3 /\ Len(delays) = 2

\* C7: every session eventually reaches Done: a session that is not Done
\* can always take a step.
C7_SessionReachesDone == pc = "Done" \/ ENABLED Next

\* C8: the events of a session are invoke(1), evaluate(1), delay(1),
\* invoke(2), ...: invocation N + 1 comes after the evaluation of outcome N
\* and after the return of the N-th delay.
EventAt(p) ==
    <<CASE p % 3 = 1 -> "invoke" [] p % 3 = 2 -> "evaluate" [] OTHER -> "delay",
      (p + 2) \div 3>>

C8_EventsTotallyOrdered == \A p \in 1..Len(trace) : trace[p] = EventAt(p)

C8_Witness ==
    /\ mode = "async" /\ Len(trace) = 7 /\ trace[7] = <<"invoke", 3>>
    /\ trace[6] = <<"delay", 2>>

\* C9: under a bound that permits no retries (take(0); max_tries 0 or 1)
\* the operation is invoked, exactly once, the first outcome is returned
\* whether or not it needs retry, and the delay executor is never called.
NoRetriesPermitted ==
    \/ entry = "delayed_by" /\ count = 0
    \/ entry = "retry" /\ retry_strategy.max_tries <= 1

C9_NoRetriesPermitted ==
    NoRetriesPermitted =>
        /\ calls <= 1
        /\ delays = <<>>
        /\ pc \in {"Invoking", "Evaluating", "Done"}
        /\ Returned \/ ENABLED Next
        /\ Returned => (calls = 1 /\ result = Operation(op, 1))

C9_Witness ==
    /\ entry = "retry" /\ retry_strategy.max_tries = 0 /\ AlwaysFails
    /\ Returned /\ calls = 1 /\ ~result.ok /\ delays = <<>>

\* C10: ExponentialBackoff::of_initial_delay(d).uncapped().take(k) yields
\* d, 2d, 4d, ... in that order: the i-th element is 2^(i-1) * d, there are
\* never more than k, the request after the k-th returns the end marker,
\* and the end marker comes only after all k.
UncappedTake ==
    /\ delay_strategy.inner.kind = "ExponentialBackoff"
    /\ delay_strategy.inner.max_delay = None_

C10_UncappedDoubles ==
    UncappedTake =>
        /\ \A i \in 1..Len(yielded) :
              yielded[i] = Pow2(i - 1) * delay_strategy.inner.initial_delay
        /\ Len(yielded) <= count
        /\ Len(yielded) = count =>
              LET r == FiniteIterator_next_delay(delay_strategy)
              IN  ~r.panic /\ r.item = None_
        /\ ends > 0 => Len(yielded) = count

C10_Witness ==
    /\ UncappedTake /\ delay_strategy.inner.initial_delay = 1 /\ count = 4
    /\ yielded = <<1, 2, 4, 8>> /\ ends = 1

CappedTake ==
    /\ delay_strategy.inner.kind = "ExponentialBackoff"
    /\ delay_strategy.inner.max_delay # None_

Cap == delay_strategy.inner.max_delay[1]

\* C11: ExponentialBackoff::of_initial_delay(d).capped_at(c).take(k) yields
\* d first and then, for each later element, the smaller of twice the
\* element yielded before it and c; never more than k elements, and the end
\* marker only after all k.
C11_CappedDoublesUpToCap ==
    CappedTake =>
        /\ Len(yielded) >= 1 => yielded[1] = delay_strategy.inner.initial_delay
        /\ \A i \in 2..Len(yielded) :
              yielded[i] = Min(2 * yielded[i - 1], Cap)
        /\ Len(yielded) <= count
        /\ ends > 0 => Len(yielded) = count

C11_Witness ==
    /\ CappedTake /\ delay_strategy.inner.initial_delay = 1 /\ Cap = 5
    /\ count = 5 /\ yielded = <<1, 2, 4, 5, 5>> /\ ends = 1

\* C12: no element of a capped exponential backoff sequence exceeds the
\* cap c, whatever the initial delay d is (d > c included).
C12_CapIsCeiling ==
    CappedTake => \A i \in 1..Len(yielded) : yielded[i] <= Cap

\* C13: every element of Fixed::of(d) is d and every element of delay::None
\* is zero; under take(n) both yield exactly n elements, none of the
\* requests fails, and the request after the n-th returns the end marker.
C13_FixedAndNoneAreConstant ==
    /\ delay_strategy.inner.kind = "Fixed" =>
          \A i \in 1..Len(yielded) : yielded[i] = wrapped.delay
    /\ delay_strategy.inner.kind = "None" =>
          \A i \in 1..Len(yielded) : yielded[i] = 0
    /\ delay_strategy.inner.kind \in {"Fixed", "None"} =>
          /\ pc # "Panicked"
          /\ Len(yielded) <= count
          /\ Len(yielded) < count =>
                FiniteIterator_next_delay(delay_strategy).item # None_
          /\ Len(yielded) = count =>
                FiniteIterator_next_delay(delay_strategy).item = None_
          /\ ends > 0 => Len(yielded) = count

C13_Witness ==
    /\ wrapped = Fixed_of(3) /\ count = 3
    /\ yielded = <<3, 3, 3>> /\ ends = 1

\* The elements the first j requests made of sequence g alone produce, in
\* order (a request that returns the end marker produces none, a request
\* that panics ends the run).
RECURSIVE Collect(_, _)
Collect(g, j) ==
    IF j = 0
    THEN <<>>
    ELSE LET r == Generator_next(g)
         IN  IF r.panic THEN <<>>
             ELSE (IF r.item = None_ THEN <<>> ELSE <<r.item[1]>>)
                  \o Collect(r.it, j - 1)

\* The number of elements sequence g produces before its first end marker,
\* counting no further than j.
RECURSIVE LengthUpTo(_, _)
LengthUpTo(g, j) ==
    IF j = 0
    THEN 0
    ELSE LET r == Generator_next(g)
         IN  IF r.panic \/ r.item = None_ THEN 0 ELSE 1 + LengthUpTo(r.it, j - 1)

\* Sequence g never produces an element after an end marker.
Fused(g) ==
    g.kind = "Iterator" =>
        \A i \in 1..Len(g.items), j \in 1..Len(g.items) :
            (i < j /\ g.items[i] = None_) => g.items[j] = None_

\* The requests made of delay_strategy so far that returned.
Requests == Len(yielded) + ends

\* C14: take(n) yields the first min(n, length) elements of the sequence it
\* wraps, in the same order and unchanged, and then the end marker; it
\* never yields more than n elements.
C14_TakeYieldsPrefix ==
    /\ Len(yielded) <= count
    /\ yielded = Collect(wrapped, Min(Requests, count))
    /\ ends = 0 => Len(yielded) <= LengthUpTo(wrapped, count)
    /\ (ends > 0 /\ Fused(wrapped)) =>
          /\ Len(yielded) = LengthUpTo(wrapped, count)
          /\ yielded = Collect(wrapped, LengthUpTo(wrapped, count))

C14_Witness ==
    /\ wrapped = Vec_into_iter(<<2, 1, 2>>) /\ count = 2
    /\ yielded = <<2, 1>> /\ ends = 1

\* C15 (as stated): once a Finite sequence has returned the end marker,
\* every later request returns the end marker.
C15_ExhaustionPermanent ==
    [][ends > 0 => yielded' = yielded]_vars

\* C15 (amended): once take(n) has returned the end marker, every later
\* request returns the end marker when the wrapped sequence itself never
\* produces an element after its own end marker (the generators, a Vec, a
\* slice), or when n requests have been made already.
C15_ExhaustionPermanentWhenFused ==
    [][(ends > 0 /\ (Fused(wrapped) \/ Requests >= count)) =>
          (yielded' = yielded /\ pc' # "Panicked")]_vars

C15_Witness ==
    /\ wrapped = Vec_into_iter(<<1>>) /\ count = 3
    /\ yielded = <<1>> /\ ends = 2

\* The tag the claim gives a sequence built by chain ch: Finite as soon as
\* take is in the chain or the sequence comes from a Vec or a slice,
\* Unknown otherwise.
ExpectedTag(ch) ==
    IF \E i \in 2..Len(ch) : ch[i] = "take"
    THEN "Finite"
    ELSE IF ch[1] \in {"from_vec", "from_slice"} THEN "Finite" ELSE "Unknown"

\* C16: the finiteness tag follows every chain of adaptors: into_tracked
\* gives Unknown, take(n) gives Finite whatever the tag before it, map and
\* filter keep the tag, a Vec or a slice converts to Finite; and a sequence
\* can be bound as a DelayStrategy exactly when its tag is Finite.
C16_TagsTrackFiniteness ==
    /\ tag = ExpectedTag(chain)
    /\ into_tracked_F = "Unknown"
    /\ from_Vec_F = "Finite" /\ from_slice_F = "Finite"
    /\ \A F \in Tags : take_F(F) = "Finite" /\ map_F(F) = F /\ filter_F(F) = F
    /\ Last(chain) = "delayed_by" => tag = "Finite"
    /\ Last(chain) # "delayed_by" => (ENABLED BindDelayStrategy <=> tag = "Finite")

C16_Witness ==
    /\ chain = <<"into_tracked", "map", "take", "filter", "delayed_by">>
    /\ tag = "Finite"

\* C17: the built-in predicates: a Result needs a retry exactly when it is
\* Err, an Option exactly when it is None, an ExitStatus exactly when it is
\* not a success; asking again gives the same answer and nothing else
\* happens (no invocation, no delay, no event).
C17_BuiltInPredicates ==
    /\ \A i \in 1..Len(verdicts) :
          verdicts[i] =
              CASE subject.type = "Result" -> subject.ok = FALSE
                [] subject.type = "Option" -> subject.value = None_
                [] subject.type = "ExitStatus" -> subject.code # Some(0)
    /\ verdicts # <<>> => (calls = 0 /\ delays = <<>> /\ trace = <<>> /\ log = <<>>)

C17_Witness ==
    /\ subject = [type |-> "ExitStatus", code |-> Some(1)]
    /\ verdicts = <<TRUE, TRUE>>

RECURSIVE RetryDelaysFrom(_, _, _, _)
RetryDelaysFrom(self, t, d, k) ==
    IF k = 0
    THEN <<>>
    ELSE LET n == Retry_next_delay(self, t, d)
         IN  <<d>> \o (IF n = None_ THEN <<>>
                       ELSE RetryDelaysFrom(self, t + 1, n[1], k - 1))

\* C19: the durations the delay executor is called with, in call order,
\* are the first elements of the configured delay sequence, one per
\* invocation but the last: none skipped, repeated, reordered or altered.
C19_ExecutorReceivesSequence ==
    /\ entry = "delayed_by" =>
          /\ delays = Collect(wrapped, Len(delays))
          /\ Len(delays) <= count
    /\ entry = "retry" =>
          delays = RetryDelaysFrom(retry_strategy, 1,
                                   Retry_initial_delay(retry_strategy), Len(delays))
    /\ entry \in {"retry", "delayed_by"} =>
          /\ calls >= 1 => Len(delays) \in {calls - 1, calls}
          /\ Returned => Len(delays) = calls - 1

C19_Witness ==
    /\ entry = "delayed_by" /\ Returned /\ AlwaysFails
    /\ wrapped = uncapped(2) /\ count = 3
    /\ calls = 4 /\ delays = <<2, 4, 8>>

ExponentialRetry ==
    /\ entry = "retry"
    /\ retry_strategy.max_tries >= 1
    /\ retry_strategy.delay # None_
    /\ retry_strategy.delay[1].kind = "ExponentialBackoff"

\* The generator of the newer generation with the parameters of a Delay.
GeneratorOf(delay) ==
    IF delay.max_delay = None_
    THEN uncapped(delay.initial_delay)
    ELSE capped_at(delay.initial_delay, delay.max_delay[1])

\* C20: with Retry { max_tries: m >= 1, ExponentialBackoff { d, c } } and
\* an operation that always fails, the delays handed to the executor are
\* the elements of ExponentialBackoff::of_initial_delay(d).capped_at(c)
\* (uncapped() without c) under take(m - 1).
C20_RetryMatchesGenerator ==
    (ExponentialRetry /\ AlwaysFails) =>
        /\ delays = Collect(GeneratorOf(retry_strategy.delay[1]), Len(delays))
        /\ Len(delays) <= retry_strategy.max_tries - 1
        /\ Returned => Len(delays) = retry_strategy.max_tries - 1

C20_Witness ==
    /\ ExponentialRetry /\ AlwaysFails /\ Returned
    /\ retry_strategy.max_tries = 4
    /\ retry_strategy.delay = ExponentialBackoffDelay(1, Some(3))
    /\ delays = <<1, 2, 3>>

\* C21: retry and retry_async are the same state machine: run with the same
\* operation outcomes, the same retry bound and the same delay strategy,
\* both end the same way, after the same number of invocations, having
\* passed the same delays in the same order, with the same outcome.
C21_SyncAndAsyncAgree ==
    (history # <<>> /\ pc \in {"Done", "Panicked"}) =>
        history[1] = [result |-> result, calls |-> calls, delays |-> delays,
                      ended |-> pc]

C21_Witness ==
    /\ entry = "retry" /\ mode = "async" /\ Returned
    /\ Len(history) = 1 /\ history[1].ended = "Done"
    /\ ~result.ok /\ calls = 3 /\ delays = <<1, 2>>

RECURSIVE TotalCalls(_)
TotalCalls(T) ==
    IF T = {}
    THEN 0
    ELSE LET t == CHOOSE u \in T : TRUE
         IN  threads[t].calls + TotalCalls(T \ {t})

\* The most invocations a Retry strategy allows: one, and max_tries if more.
MostCalls(strategy) == Max(1, strategy.max_tries)

\* C23: two sessions interleaved over an operation that shares caller state
\* do not interfere through the orchestrator: each keeps its own attempt
\* counter and its own place in its delays, each makes no more invocations
\* than its own bound allows (exactly that many when the operation always
\* fails), and the invocations add up to the shared count, whatever the
\* interleaving.
C23_SessionsDoNotInterfere ==
    /\ \A t \in Threads :
          LET self == threads[t]
          IN  /\ self.calls <= MostCalls(self.retry_strategy)
              /\ self.tries = 1 + Len(self.delays)
              /\ self.delays =
                    RetryDelaysFrom(self.retry_strategy, 1,
                                    Retry_initial_delay(self.retry_strategy),
                                    Len(self.delays))
              /\ (self.pc = "Done" /\ shared.op.always_fails) =>
                    self.calls = MostCalls(self.retry_strategy)
    /\ shared.counter = TotalCalls(Threads)

C23_Witness ==
    /\ shared.op.always_fails
    /\ threads["A"].pc = "Done" /\ threads["B"].pc = "Done"
    /\ threads["A"].retry_strategy.max_tries = 2 /\ threads["A"].calls = 2
    /\ threads["B"].retry_strategy.max_tries = 3 /\ threads["B"].calls = 3
    /\ threads["A"].out.val = 4 /\ threads["B"].out.val = 5
    /\ shared.counter = 5

\* C24: the attempt counter is 1 before the first invocation, grows by one
\* with each executed delay and at no other time: while the session runs
\* and when it has returned it is 1 + the number of delays performed, which
\* is the number of the invocation running or just evaluated (of the one
\* about to start, between a delay and the next invocation).
C24_AttemptCounterTracksSession ==
    (entry \in {"retry", "delayed_by"} /\ pc # "Panicked") =>
        /\ tries = 1 + Len(delays)
        /\ pc = "Invoking" => calls = tries - 1
        /\ pc \in {"Evaluating", "Delaying", "Done"} => calls = tries

C24_Witness ==
    /\ entry = "retry" /\ mode = "sync" /\ pc = "Evaluating"
    /\ tries = 3 /\ Len(delays) = 2 /\ calls = 3

\* C25: the delay executor is called only after an outcome that needs a
\* retry: a session that succeeds on its first invocation has suspended
\* zero times and taken no element from the delay sequence, and a session
\* that succeeds on invocation k has suspended exactly k - 1 times.
C25_SuccessLeavesWaitingUntouched ==
    entry \in {"retry", "delayed_by"} =>
        /\ pc = "Delaying" => ~out.ok
        /\ ~AlwaysFails => Len(delays) <= op.fails_first
        /\ (Returned /\ result.ok) =>
              /\ Len(delays) = calls - 1
              /\ entry = "delayed_by" => (Len(yielded) = calls - 1 /\ ends = 0)
              /\ calls = 1 => (delays = <<>> /\ yielded = <<>> /\ log = <<>>)

C25_Witness ==
    /\ entry = "delayed_by" /\ mode = "async" /\ Returned /\ result.ok
    /\ op.fails_first = 2 /\ calls = 3
    /\ Len(delays) = 2 /\ Len(yielded) = 2

WaitingEvents == SelectSeq(log, LAMBDA e : e.event = "waiting")
AbortingEvents == SelectSeq(log, LAMBDA e : e.event = "aborting")

\* C26: the diagnostic events match the session: one waiting event for each
\* executed delay (and one for the delay about to be executed), the i-th
\* carrying attempt count i and the i-th delay; one exhaustion event exactly
\* when the session has ended by exhaustion, the last event of the session,
\* carrying the number of invocations and the last outcome; none when the
\* session has ended in success.
C26_EventsMatchSession ==
    entry \in {"retry", "delayed_by"} =>
        /\ Len(WaitingEvents) = Len(delays) + (IF pc = "Delaying" THEN 1 ELSE 0)
        /\ \A i \in 1..Len(WaitingEvents) :
              /\ WaitingEvents[i].tries = i
              /\ WaitingEvents[i].delay =
                    IF i <= Len(delays) THEN delays[i] ELSE next_delay
        /\ Len(AbortingEvents) <= 1
        /\ AbortingEvents # <<>> <=> (Returned /\ ~result.ok)
        /\ AbortingEvents # <<>> =>
              /\ log[Len(log)] = AbortingEvents[1]
              /\ AbortingEvents[1].tries = calls
              /\ AbortingEvents[1].last_output = result

C26_Witness ==
    /\ entry = "retry" /\ mode = "sync" /\ Returned /\ ~result.ok
    /\ calls = 3 /\ delays = <<1, 2>>
    /\ Len(WaitingEvents) = 2 /\ Len(AbortingEvents) = 1 /\ Len(log) = 3

\* C27: producing the next exponential-backoff delay never fails: for every
\* initial delay and cap the doubling stays within the range of the
\* duration type, so neither the generator nor Retry::next_delay panics.
C27_DoublingNeverFails == pc # "Panicked"

=============================================================================
